---- MODULE Spec2Model ----
(***************************************************************************)
(* Model of pdf_question_extractor.PDFQuestionExtractor: the text-to-      *)
(* record parser (sanitize_text, parse_questions, parse_question_content,  *)
(* extract_option, extract_reference, detect_question_type).               *)
(*                                                                         *)
(* A Python str is a sequence of code points (integers); the empty tuple   *)
(* is the empty string.  The alphabet of the model is ASCII (0..127).      *)
(* Every regular expression of the source is modelled by an explicit       *)
(* left-to-right scan with the matching rules of Python's re module.       *)
(***************************************************************************)
EXTENDS Integers, Sequences, FiniteSets, TLC

VARIABLES
    doc,        \* how the text is made up: a prelude or none, and the blocks of Library
    extracted,  \* the text extracted from the document, the argument of parse_questions
    questions,  \* self.questions
    considered, \* the (question_no, content) pairs the last call handed to parse_question_content
    before,     \* len(self.questions) when the last call began
    calls,      \* the number of calls of parse_questions so far
    san_in,     \* sanitize_text: the argument of the first call
    san_outs,   \* sanitize_text: the values returned so far, each call fed the previous result
    det_statement,  \* detect_question_type: the argument question_statement
    det_options,    \* detect_question_type: the argument options
    det_result,     \* detect_question_type: the value returned, "pending" before the call
    blk_no,     \* parse_question_content, extract_option: the question number of the block
    blk_content,    \* parse_question_content, extract_option: the content of the block
    blk_result, \* parse_question_content: whether it was called, and the value returned
    blk_option, \* extract_option: the letter asked for (0 before the call) and the text returned
    source,     \* process: what the file at pdf_path was when the last call read it
    ocr_available,  \* PDF2IMAGE_AVAILABLE and PYTESSERACT_AVAILABLE
    use_ocr,    \* process: the argument use_ocr of the last call
    returned,   \* process: the list the last call returned
    reportlab_available,    \* REPORTLAB_AVAILABLE
    op,         \* the export operation called last, "none" before the first
    arg_file,   \* its argument output_file (base_output for save_all)
    arg_formats,    \* its argument formats
    arg_filter, \* its argument question_type (separate_by_type for save_all)
    invalid_formats,    \* save: the formats reported as invalid
    invoked,    \* the writers the operation called, in order, with their arguments
    written,    \* the files the operation wrote, in order, with their contents
    result,     \* the value the operation returned
    pdf_files,  \* batch_process_pdfs: the files named by its argument pdf_files
    handled,    \* batch_process_pdfs: the number of turns of its loop completed
    results     \* batch_process_pdfs: its dictionary results

parse_vars == <<doc, extracted, questions, considered, before, calls>>

san_vars == <<san_in, san_outs>>

det_vars == <<det_statement, det_options, det_result>>

blk_vars == <<blk_no, blk_content, blk_result, blk_option>>

proc_vars == <<source, ocr_available, use_ocr, returned>>

save_vars == <<reportlab_available, op, arg_file, arg_formats, arg_filter,
               invalid_formats, invoked, written, result>>

batch_vars == <<pdf_files, handled, results>>

vars == <<parse_vars, san_vars, det_vars, blk_vars, proc_vars, save_vars,
          batch_vars>>

\* no extractor is at work
ParseIdle ==
    /\ doc = [prelude |-> FALSE, blocks |-> <<>>]
    /\ extracted = <<>>
    /\ questions = <<>>
    /\ considered = <<>>
    /\ before = 0
    /\ calls = 0

\* no call of sanitize_text is followed
SanIdle == san_in = <<>> /\ san_outs = <<>>

\* no call of detect_question_type is followed
DetIdle == det_statement = <<>> /\ det_options = <<>> /\ det_result = "pending"

\* no call of parse_question_content or extract_option on a block is followed
BlkIdle ==
    /\ blk_no = <<>>
    /\ blk_content = <<>>
    /\ blk_result = [done |-> FALSE, value |-> <<>>]
    /\ blk_option = [option_letter |-> 0, text |-> <<>>]

\* process has not been called, and the OCR libraries are not installed
ProcIdle ==
    /\ source = "none"
    /\ ocr_available = FALSE
    /\ use_ocr = FALSE
    /\ returned = <<>>

\* no export operation has been called, and reportlab is not installed
SaveIdle ==
    /\ reportlab_available = FALSE
    /\ op = "none"
    /\ arg_file = <<>>
    /\ arg_formats = <<>>
    /\ arg_filter = "None"
    /\ invalid_formats = <<>>
    /\ invoked = <<>>
    /\ written = <<>>
    /\ result = [kind |-> "None", value |-> <<>>]

\* batch_process_pdfs has not been called
BatchIdle ==
    /\ pdf_files = <<>>
    /\ handled = 0
    /\ results = [successful |-> <<>>, failed |-> <<>>, total_questions |-> 0]

-----------------------------------------------------------------------------
(* Python string primitives *)

Min(S) == CHOOSE x \in S : \A y \in S : x <= y

Max(S) == CHOOSE x \in S : \A y \in S : x >= y

\* str.isspace() / regex \s on ASCII: \t \n \v \f \r, \x1c..\x1f and space
IsSpace(c) == c \in {9, 10, 11, 12, 13, 28, 29, 30, 31, 32}

\* regex \d on ASCII
IsDigit(c) == c \in 48..57

\* str.strip()
Strip(s) ==
    LET keep == {i \in 1..Len(s) : ~IsSpace(s[i])}
    IN  IF keep = {} THEN <<>> ELSE SubSeq(s, Min(keep), Max(keep))

\* s[i:] starts with lit (i is 1-based)
StartsAt(s, lit, i) ==
    /\ i >= 1
    /\ i + Len(lit) - 1 <= Len(s)
    /\ \A k \in 1..Len(lit) : s[i + k - 1] = lit[k]

\* str.replace(old, new): the non-overlapping occurrences of old, left to
\* right, for the replacements sanitize_text makes: old does not overlap
\* itself and new is at most one character, so every index of s gives one
\* character of the result or none (Gone)
Gone == 0 - 1

Replace(s, old, new) ==
    LET Starts(i) == StartsAt(s, old, i)
        Inside(i) == \E j \in (i - Len(old) + 1)..(i - 1) : j >= 1 /\ Starts(j)
        out == [i \in 1..Len(s) |->
                  IF Starts(i) THEN (IF new = <<>> THEN Gone ELSE new[1])
                  ELSE IF Inside(i) THEN Gone ELSE s[i]]
    IN  SelectSeq(out, LAMBDA c : c # Gone)

-----------------------------------------------------------------------------
(* sanitize_text *)

\* '\x00'
NUL == <<0>>

\* '\r\n'
CRLF == <<13, 10>>

\* '\r'
CR == <<13>>

\* '\n'
LF == <<10>>

\* the generator expression of the join: char == '\n' or char == '\t' or ord(char) >= 32
KeepChar(c) == c = 10 \/ c = 9 \/ c >= 32

\* A slip the idempotence would catch: trimming before the control characters
\* are removed.
sanitize_text_strip_first(text) ==
    IF text = <<>> THEN <<>>
    ELSE LET r1 == Replace(text, NUL, <<>>)
             r2 == Replace(r1, CRLF, LF)
             r3 == Replace(r2, CR, LF)
         IN  SelectSeq(Strip(r3), KeepChar)

\* A slip the field invariant would catch: the filter of the control
\* characters left out.
sanitize_text_keep_controls(text) ==
    IF text = <<>> THEN <<>>
    ELSE LET r1 == Replace(text, NUL, <<>>)
             r2 == Replace(r1, CRLF, LF)
             r3 == Replace(r2, CR, LF)
         IN  Strip(r3)

\* PDFQuestionExtractor.sanitize_text: the replacements run in the order of the
\* dict ('\x00', '\r\n', '\r'), then the filter, then strip()
sanitize_text(text) ==
    IF text = <<>> THEN <<>>
    ELSE LET r1 == Replace(text, NUL, <<>>)
             r2 == Replace(r1, CRLF, LF)
             r3 == Replace(r2, CR, LF)
         IN  Strip(SelectSeq(r3, KeepChar))

-----------------------------------------------------------------------------
(* Scanning primitives of the regular expressions *)

\* str.lower() / re.IGNORECASE folding of one ASCII character
LowerChar(c) == IF c \in 65..90 THEN c + 32 ELSE c

\* str.upper() of one ASCII character
UpperChar(c) == IF c \in 97..122 THEN c - 32 ELSE c

\* str.lower()
Lower(s) == [i \in 1..Len(s) |-> LowerChar(s[i])]

\* s[i:] starts with lit, letter case ignored (re.IGNORECASE)
StartsAtI(s, lit, i) ==
    /\ i >= 1
    /\ i + Len(lit) - 1 <= Len(s)
    /\ \A k \in 1..Len(lit) : LowerChar(s[i + k - 1]) = LowerChar(lit[k])

\* `sub in s`
Contains(s, sub) == \E i \in 1..(Len(s) - Len(sub) + 1) : StartsAt(s, sub, i)

\* index of the first occurrence of lit in s at or after from; 0 when none
Find(s, lit, from) ==
    LET at == {i \in from..(Len(s) - Len(lit) + 1) : StartsAt(s, lit, i)}
    IN  IF at = {} THEN 0 ELSE Min(at)

\* greedy \s* from i: the index of the first character that is not white space
SkipSpaces(s, i) ==
    LET stop == {j \in i..Len(s) : ~IsSpace(s[j])}
    IN  IF stop = {} THEN Len(s) + 1 ELSE Min(stop)

\* greedy \d* from i: the index of the first character that is not a digit
SkipDigits(s, i) ==
    LET stop == {j \in i..Len(s) : ~IsDigit(s[j])}
    IN  IF stop = {} THEN Len(s) + 1 ELSE Min(stop)

\* `$` without re.MULTILINE at index p: the end of the string, or just before
\* a newline that ends the string
AtEnd(s, p) == p = Len(s) + 1 \/ (p = Len(s) /\ s[p] = 10)

\* re.sub(r'\s+', ' ', s): a space for the first character of each run of
\* white space, nothing for the rest of the run
CollapseSpaces(s) ==
    LET out == [i \in 1..Len(s) |->
                  IF ~IsSpace(s[i]) THEN s[i]
                  ELSE IF i > 1 /\ IsSpace(s[i - 1]) THEN Gone ELSE 32]
    IN  SelectSeq(out, LAMBDA c : c # Gone)

-----------------------------------------------------------------------------
(* parse_questions: the split of the text *)

\* 'QUESTION NO:'
QUESTION_NO ==
    <<81, 85, 69, 83, 84, 73, 79, 78, 32, 78, 79, 58>>

\* r'QUESTION NO:\s*(\d+)' matched at index i: the index after the match, 0
\* when it does not match there
QuestionPatternEnd(s, i) ==
    IF ~StartsAt(s, QUESTION_NO, i) THEN 0
    ELSE LET k == SkipSpaces(s, i + Len(QUESTION_NO))
             d == SkipDigits(s, k)
         IN  IF d > k THEN d ELSE 0

\* re.split(question_pattern, text) from index pos on: the text before each
\* match, the captured number, and at the end the text after the last match
RECURSIVE SplitFrom(_, _)
SplitFrom(s, pos) ==
    LET at == {i \in pos..Len(s) : QuestionPatternEnd(s, i) # 0}
    IN  IF at = {} THEN <<SubSeq(s, pos, Len(s))>>
        ELSE LET i == Min(at)
                 k == SkipSpaces(s, i + Len(QUESTION_NO))
                 d == QuestionPatternEnd(s, i)
             IN  <<SubSeq(s, pos, i - 1), SubSeq(s, k, d - 1)>> \o SplitFrom(s, d)

\* questions_raw = re.split(question_pattern, text)
re_split(text) == SplitFrom(text, 1)

-----------------------------------------------------------------------------
(* parse_question_content and its helpers *)

\* 'ANSWER:'
ANSWER ==
    <<65, 78, 83, 87, 69, 82, 58>>

\* 'Explanation:'
EXPLANATION ==
    <<69, 120, 112, 108, 97, 110, 97, 116, 105, 111, 110, 58>>

\* 'image', 'picture', 'diagram', 'figure', 'screenshot',
\* 'shown below', 'shown above', 'refer to the', 'see the',
\* 'following image', 'following diagram', 'following figure',
\* 'exhibit', 'illustration'
image_indicators == <<
    <<105, 109, 97, 103, 101>>,
    <<112, 105, 99, 116, 117, 114, 101>>,
    <<100, 105, 97, 103, 114, 97, 109>>,
    <<102, 105, 103, 117, 114, 101>>,
    <<115, 99, 114, 101, 101, 110, 115, 104, 111, 116>>,
    <<115, 104, 111, 119, 110, 32, 98, 101, 108, 111, 119>>,
    <<115, 104, 111, 119, 110, 32, 97, 98, 111, 118, 101>>,
    <<114, 101, 102, 101, 114, 32, 116, 111, 32, 116, 104, 101>>,
    <<115, 101, 101, 32, 116, 104, 101>>,
    <<102, 111, 108, 108, 111, 119, 105, 110, 103, 32, 105, 109, 97, 103, 101>>,
    <<102, 111, 108, 108, 111, 119, 105, 110, 103, 32, 100, 105, 97, 103, 114, 97, 109>>,
    <<102, 111, 108, 108, 111, 119, 105, 110, 103, 32, 102, 105, 103, 117, 114, 101>>,
    <<101, 120, 104, 105, 98, 105, 116>>,
    <<105, 108, 108, 117, 115, 116, 114, 97, 116, 105, 111, 110>>>>

\* A slip the classification would catch: the indicators looked for in the
\* text as written, not in its lower-cased form.
detect_question_type_case(question_statement, options) ==
    LET full_text == question_statement \o <<32>> \o options
    IN  IF \E n \in 1..Len(image_indicators) : Contains(full_text, image_indicators[n])
        THEN "image"
        ELSE IF Len(Strip(question_statement)) < 20 THEN "image" ELSE "text"

\* A slip the summary counts would catch: a third class for the statements
\* that are too short to judge.
detect_question_type_unknown(question_statement, options) ==
    LET full_text == Lower(question_statement \o <<32>> \o options)
    IN  IF \E n \in 1..Len(image_indicators) : Contains(full_text, image_indicators[n])
        THEN "image"
        ELSE IF Len(Strip(question_statement)) < 20 THEN "unknown" ELSE "text"

\* PDFQuestionExtractor.detect_question_type
detect_question_type(question_statement, options) ==
    LET full_text == Lower(question_statement \o <<32>> \o options)
    IN  IF \E n \in 1..Len(image_indicators) : Contains(full_text, image_indicators[n])
        THEN "image"
        ELSE IF Len(Strip(question_statement)) < 20 THEN "image" ELSE "text"

\* PDFQuestionExtractor.extract_option: re.search of
\* f'{option_letter}\\.\\s*(.*?)(?={next_letter}\\.|ANSWER:|$)' with re.DOTALL,
\* group(1).strip(), '' when there is no match
extract_option(text, option_letter) ==
    LET next_letter == option_letter + 1
        f == Find(text, <<option_letter, 46>>, 1)
    IN  IF f = 0 THEN <<>>
        ELSE LET k == SkipSpaces(text, f + 2)
                 e == Min({p \in k..(Len(text) + 1) :
                             \/ StartsAt(text, <<next_letter, 46>>, p)
                             \/ StartsAt(text, ANSWER, p)
                             \/ AtEnd(text, p)})
             IN  Strip(SubSeq(text, k, e - 1))

\* A slip the statement of a block without options would catch: the whole
\* block taken for the statement when there is no "A.".
QuestionStatement_whole_block(content) ==
    LET f == Find(content, <<65, 46>>, 1)
    IN  IF f = 0 THEN Strip(content) ELSE Strip(SubSeq(content, 1, f - 1))

\* re.search(r'^(.*?)(?=A\.)', content, re.DOTALL):
\* group(1).strip() if the pattern matches, else ""
QuestionStatement(content) ==
    LET f == Find(content, <<65, 46>>, 1)
    IN  IF f = 0 THEN <<>> ELSE Strip(SubSeq(content, 1, f - 1))

\* A slip the answer invariant would catch: the letter kept as written,
\* without .upper().
CorrectAnswer_no_upper(content) ==
    LET LetterAt(i) == SkipSpaces(content, i + Len(ANSWER))
        at == {i \in 1..Len(content) :
                 /\ StartsAtI(content, ANSWER, i)
                 /\ LetterAt(i) <= Len(content)
                 /\ LowerChar(content[LetterAt(i)]) \in 97..100}
    IN  IF at = {} THEN <<>> ELSE <<content[LetterAt(Min(at))]>>

\* re.search(r'ANSWER:\s*([A-D])', content, re.IGNORECASE):
\* group(1).upper() if the pattern matches, else ""
CorrectAnswer(content) ==
    LET LetterAt(i) == SkipSpaces(content, i + Len(ANSWER))
        at == {i \in 1..Len(content) :
                 /\ StartsAtI(content, ANSWER, i)
                 /\ LetterAt(i) <= Len(content)
                 /\ LowerChar(content[LetterAt(i)]) \in 97..100}
    IN  IF at = {} THEN <<>> ELSE <<UpperChar(content[LetterAt(Min(at))])>>

\* re.search(r'Explanation:(.*?)(?=QUESTION NO:|$)', content,
\* re.DOTALL | re.IGNORECASE): group(1).strip() if the pattern matches, else
\* ""; then re.sub(r'\s+', ' ', explanation).strip()
Explanation(content) ==
    LET at == {i \in 1..Len(content) : StartsAtI(content, EXPLANATION, i)}
    IN  IF at = {} THEN <<>>
        ELSE LET k == Min(at) + Len(EXPLANATION)
                 e == Min({p \in k..(Len(content) + 1) :
                             StartsAtI(content, QUESTION_NO, p) \/ AtEnd(content, p)})
             IN  Strip(CollapseSpaces(Strip(SubSeq(content, k, e - 1))))

\* 'Reference'
REFERENCE ==
    <<82, 101, 102, 101, 114, 101, 110, 99, 101>>

\* reference_patterns[0], r'Reference\s*[=:]\s*(.+?)(?:\.|$)', searched in an
\* explanation that is trimmed and has its white space collapsed (so it holds
\* no newline and does not end in white space): group(1), <<>> when the
\* pattern does not match.  '=' is 61, ':' is 58, '.' is 46.
ReferencePattern1(explanation) ==
    LET Sep(i) == SkipSpaces(explanation, i + Len(REFERENCE))
        Cap(i) == SkipSpaces(explanation, Sep(i) + 1)
        at == {i \in 1..Len(explanation) :
                 /\ StartsAt(explanation, REFERENCE, i)
                 /\ Sep(i) <= Len(explanation)
                 /\ explanation[Sep(i)] \in {61, 58}
                 /\ Cap(i) <= Len(explanation)}
    IN  IF at = {} THEN <<>>
        ELSE LET c == Cap(Min(at))
                 e == Min({p \in (c + 1)..(Len(explanation) + 1) :
                             \/ p = Len(explanation) + 1
                             \/ explanation[p] = 46})
             IN  SubSeq(explanation, c, e - 1)

\* The words of reference_patterns: each of the five patterns needs at least
\* one of 'Ref', 'Source', 'Citation', 'Domain', 'Study Guide', 'Edition',
\* 'Chapter', 'Page', 'Exam', 'Objectives' in the text it matches.
ReferenceCues == <<
    <<82, 101, 102>>,
    <<83, 111, 117, 114, 99, 101>>,
    <<67, 105, 116, 97, 116, 105, 111, 110>>,
    <<68, 111, 109, 97, 105, 110>>,
    <<83, 116, 117, 100, 121, 32, 71, 117, 105, 100, 101>>,
    <<69, 100, 105, 116, 105, 111, 110>>,
    <<67, 104, 97, 112, 116, 101, 114>>,
    <<80, 97, 103, 101>>,
    <<69, 120, 97, 109>>,
    <<79, 98, 106, 101, 99, 116, 105, 118, 101, 115>>>>

\* PDFQuestionExtractor.extract_reference.  An empty explanation returns
\* ("", None).  Otherwise the function builds its list of patterns and then
\* runs a stray copy of the body of parse_questions, whose re.split(..., text)
\* reads the name `text`, which is bound neither in the function nor in the
\* module: NameError.  raised is the exception, reference is <<>> for None.
extract_reference(explanation) ==
    IF explanation = <<>>
    THEN [raised |-> FALSE, clean_explanation |-> <<>>, reference |-> <<>>]
    ELSE [raised |-> TRUE, clean_explanation |-> <<>>, reference |-> <<>>]

\* PDFQuestionExtractor.parse_question_content: <<>> for None (the except
\* branch), else the one-element sequence holding the dict
parse_question_content(question_no, content) ==
    LET question_statement == QuestionStatement(content)
        option_a == extract_option(content, 65)
        option_b == extract_option(content, 66)
        option_c == extract_option(content, 67)
        option_d == extract_option(content, 68)
        correct_answer == CorrectAnswer(content)
        explanation == Explanation(content)
        ref == extract_reference(explanation)
        all_options == option_a \o <<32>> \o option_b \o <<32>> \o option_c
                           \o <<32>> \o option_d
        question_type == detect_question_type(question_statement, all_options)
    IN  IF ref.raised THEN <<>>
        ELSE << [question_no |-> sanitize_text(question_no),
                 question_type |-> question_type,
                 question_statement |-> sanitize_text(question_statement),
                 option_A |-> sanitize_text(option_a),
                 option_B |-> sanitize_text(option_b),
                 option_C |-> sanitize_text(option_c),
                 option_D |-> sanitize_text(option_d),
                 correct_answer |-> sanitize_text(correct_answer),
                 explanation |-> sanitize_text(ref.clean_explanation),
                 reference |-> IF ref.reference # <<>>
                               THEN sanitize_text(ref.reference[1]) ELSE <<>>] >>

\* A slip the count of the blocks would catch: the guard of the loop one too
\* strict, so that the last block is left out.
RECURSIVE LoopPairs_drop_last(_, _)
LoopPairs_drop_last(raw, i) ==
    IF i >= Len(raw) THEN <<>>
    ELSE IF i + 2 < Len(raw)
         THEN <<[question_no |-> Strip(raw[i + 1]), content |-> raw[i + 2]]>>
                  \o LoopPairs_drop_last(raw, i + 2)
         ELSE LoopPairs_drop_last(raw, i + 2)

\* A slip the case of a text without a marker would catch: a text that the
\* split leaves in one piece taken for a block with an empty number.
RECURSIVE LoopPairs_whole_text(_, _)
LoopPairs_whole_text(raw, i) ==
    IF i = 1 /\ Len(raw) = 1 THEN <<[question_no |-> <<>>, content |-> raw[1]]>>
    ELSE IF i >= Len(raw) THEN <<>>
    ELSE IF i + 1 < Len(raw)
         THEN <<[question_no |-> Strip(raw[i + 1]), content |-> raw[i + 2]]>>
                  \o LoopPairs_whole_text(raw, i + 2)
         ELSE LoopPairs_whole_text(raw, i + 2)

\* parse_questions, the loop header: the (question_no, content) pairs handed
\* to parse_question_content.  i is the 0-based index of the source, so
\* questions_raw[i] is raw[i + 1].
RECURSIVE LoopPairs(_, _)
LoopPairs(raw, i) ==
    IF i >= Len(raw) THEN <<>>
    ELSE IF i + 1 < Len(raw)
         THEN <<[question_no |-> Strip(raw[i + 1]), content |-> raw[i + 2]]>>
                  \o LoopPairs(raw, i + 2)
         ELSE LoopPairs(raw, i + 2)

\* A slip the isolation of a failing block would catch: the first block that
\* fails ends the loop.
RECURSIVE LoopRecords_abort(_)
LoopRecords_abort(pairs) ==
    IF pairs = <<>> THEN <<>>
    ELSE LET question_data ==
                 parse_question_content(pairs[1].question_no, pairs[1].content)
         IN  IF question_data = <<>> THEN <<>>
             ELSE question_data \o LoopRecords_abort(Tail(pairs))

\* parse_questions, the loop body: question_data of each pair, appended when
\* it is not None
RECURSIVE LoopRecords(_)
LoopRecords(pairs) ==
    IF pairs = <<>> THEN <<>>
    ELSE parse_question_content(pairs[1].question_no, pairs[1].content)
             \o LoopRecords(Tail(pairs))

-----------------------------------------------------------------------------
(* Specification Spec: an extractor whose document yields the text `extracted`, *)
(* and parse_questions(extracted) called on it up to MaxCalls times.  The text  *)
(* is an optional prelude followed by up to MaxBlocks blocks of Library.   *)

MaxBlocks == 2

MaxCalls == 2

\* the first block of the end-to-end scenario
\* 'QUESTION NO: 1\nWhat is 2+2?\nA. 3\nB. 4\nC. 5\nD. 6\nANSWER: B\nExplanation: Basic math. Reference: Arithmetic Guide.\n'
Block1 ==
    <<81, 85, 69, 83, 84, 73, 79, 78, 32, 78, 79, 58, 32, 49, 10, 87, 104,
      97, 116, 32, 105, 115, 32, 50, 43, 50, 63, 10, 65, 46, 32, 51, 10,
      66, 46, 32, 52, 10, 67, 46, 32, 53, 10, 68, 46, 32, 54, 10, 65, 78,
      83, 87, 69, 82, 58, 32, 66, 10, 69, 120, 112, 108, 97, 110, 97, 116,
      105, 111, 110, 58, 32, 66, 97, 115, 105, 99, 32, 109, 97, 116, 104,
      46, 32, 82, 101, 102, 101, 114, 101, 110, 99, 101, 58, 32, 65, 114,
      105, 116, 104, 109, 101, 116, 105, 99, 32, 71, 117, 105, 100, 101,
      46, 10>>

\* a well-formed block whose explanation holds no citation
\* 'QUESTION NO: 2\nWhich planet is the largest in our solar system?\nA. Mars\nB. Earth\nC. Jupiter\nD. Venus\nANSWER: C\nExplanation: It is a gas giant.\n'
Block2 ==
    <<81, 85, 69, 83, 84, 73, 79, 78, 32, 78, 79, 58, 32, 50, 10, 87, 104,
      105, 99, 104, 32, 112, 108, 97, 110, 101, 116, 32, 105, 115, 32, 116,
      104, 101, 32, 108, 97, 114, 103, 101, 115, 116, 32, 105, 110, 32,
      111, 117, 114, 32, 115, 111, 108, 97, 114, 32, 115, 121, 115, 116,
      101, 109, 63, 10, 65, 46, 32, 77, 97, 114, 115, 10, 66, 46, 32, 69,
      97, 114, 116, 104, 10, 67, 46, 32, 74, 117, 112, 105, 116, 101, 114,
      10, 68, 46, 32, 86, 101, 110, 117, 115, 10, 65, 78, 83, 87, 69, 82,
      58, 32, 67, 10, 69, 120, 112, 108, 97, 110, 97, 116, 105, 111, 110,
      58, 32, 73, 116, 32, 105, 115, 32, 97, 32, 103, 97, 115, 32, 103,
      105, 97, 110, 116, 46, 10>>

\* CRLF line ends, BEL, NUL and DEL in the text, a lower-case answer marker, no explanation
\* 'QUESTION NO:3\r\nWhich \x07protocol encrypts web traffic by default?\r\nA. HTTP\r\nB. HTTPS\x00\r\nC. FTP\x7f\r\nD. Telnet\r\nanswer: b\r\n'
Block3 ==
    <<81, 85, 69, 83, 84, 73, 79, 78, 32, 78, 79, 58, 51, 13, 10, 87, 104,
      105, 99, 104, 32, 7, 112, 114, 111, 116, 111, 99, 111, 108, 32, 101,
      110, 99, 114, 121, 112, 116, 115, 32, 119, 101, 98, 32, 116, 114, 97,
      102, 102, 105, 99, 32, 98, 121, 32, 100, 101, 102, 97, 117, 108, 116,
      63, 13, 10, 65, 46, 32, 72, 84, 84, 80, 13, 10, 66, 46, 32, 72, 84,
      84, 80, 83, 0, 13, 10, 67, 46, 32, 70, 84, 80, 127, 13, 10, 68, 46,
      32, 84, 101, 108, 110, 101, 116, 13, 10, 97, 110, 115, 119, 101, 114,
      58, 32, 98, 13, 10>>

\* a short statement, no option D, no explanation
\* 'QUESTION NO: 4\nSee exhibit.\nA. x\nB. y\nC. z\nANSWER: A\n'
Block4 ==
    <<81, 85, 69, 83, 84, 73, 79, 78, 32, 78, 79, 58, 32, 52, 10, 83, 101,
      101, 32, 101, 120, 104, 105, 98, 105, 116, 46, 10, 65, 46, 32, 120,
      10, 66, 46, 32, 121, 10, 67, 46, 32, 122, 10, 65, 78, 83, 87, 69, 82,
      58, 32, 65, 10>>

\* no option D, an explanation ending in a citation
\* 'QUESTION NO: 5\nWhich port does the secure shell use?\nA. 21\nB. 22\nC. 23\nANSWER: B\nExplanation: SSH uses port 22. Reference: CompTIA Security+ Study Guide.\n'
Block5 ==
    <<81, 85, 69, 83, 84, 73, 79, 78, 32, 78, 79, 58, 32, 53, 10, 87, 104,
      105, 99, 104, 32, 112, 111, 114, 116, 32, 100, 111, 101, 115, 32,
      116, 104, 101, 32, 115, 101, 99, 117, 114, 101, 32, 115, 104, 101,
      108, 108, 32, 117, 115, 101, 63, 10, 65, 46, 32, 50, 49, 10, 66, 46,
      32, 50, 50, 10, 67, 46, 32, 50, 51, 10, 65, 78, 83, 87, 69, 82, 58,
      32, 66, 10, 69, 120, 112, 108, 97, 110, 97, 116, 105, 111, 110, 58,
      32, 83, 83, 72, 32, 117, 115, 101, 115, 32, 112, 111, 114, 116, 32,
      50, 50, 46, 32, 82, 101, 102, 101, 114, 101, 110, 99, 101, 58, 32,
      67, 111, 109, 112, 84, 73, 65, 32, 83, 101, 99, 117, 114, 105, 116,
      121, 43, 32, 83, 116, 117, 100, 121, 32, 71, 117, 105, 100, 101, 46,
      10>>

\* a well-formed block without an explanation
\* 'QUESTION NO: 6\nWhich layer of the OSI model routes packets?\nA. Physical\nB. Network\nC. Session\nD. Transport\nANSWER: B\n'
Block6 ==
    <<81, 85, 69, 83, 84, 73, 79, 78, 32, 78, 79, 58, 32, 54, 10, 87, 104,
      105, 99, 104, 32, 108, 97, 121, 101, 114, 32, 111, 102, 32, 116, 104,
      101, 32, 79, 83, 73, 32, 109, 111, 100, 101, 108, 32, 114, 111, 117,
      116, 101, 115, 32, 112, 97, 99, 107, 101, 116, 115, 63, 10, 65, 46,
      32, 80, 104, 121, 115, 105, 99, 97, 108, 10, 66, 46, 32, 78, 101,
      116, 119, 111, 114, 107, 10, 67, 46, 32, 83, 101, 115, 115, 105, 111,
      110, 10, 68, 46, 32, 84, 114, 97, 110, 115, 112, 111, 114, 116, 10,
      65, 78, 83, 87, 69, 82, 58, 32, 66, 10>>

\* a block with none of the markers
\* 'QUESTION NO: 7\nUnparsable text\n'
Block7 ==
    <<81, 85, 69, 83, 84, 73, 79, 78, 32, 78, 79, 58, 32, 55, 10, 85, 110,
      112, 97, 114, 115, 97, 98, 108, 101, 32, 116, 101, 120, 116, 10>>

\* text before the first marker; its 'QUESTION NO:' is followed by no number
\* 'Exam dump, QUESTION NO: none\n'
Prelude ==
    <<69, 120, 97, 109, 32, 100, 117, 109, 112, 44, 32, 81, 85, 69, 83, 84,
      73, 79, 78, 32, 78, 79, 58, 32, 110, 111, 110, 101, 10>>

Library == <<Block1, Block2, Block3, Block4, Block5, Block6, Block7>>

Docs == [prelude : BOOLEAN,
         blocks : UNION {[1..n -> 1..Len(Library)] : n \in 0..MaxBlocks}]

RECURSIVE Concat(_)
Concat(blocks) ==
    IF blocks = <<>> THEN <<>> ELSE Library[blocks[1]] \o Concat(Tail(blocks))

TextOf(d) == (IF d.prelude THEN Prelude ELSE <<>>) \o Concat(d.blocks)

\* PDFQuestionExtractor.__init__: self.questions = []
Init ==
    /\ doc \in Docs
    /\ extracted = TextOf(doc)
    /\ questions = <<>>
    /\ considered = <<>>
    /\ before = 0
    /\ calls = 0
    /\ SanIdle
    /\ DetIdle
    /\ BlkIdle
    /\ ProcIdle
    /\ SaveIdle
    /\ BatchIdle

\* PDFQuestionExtractor.parse_questions(text)
ParseQuestions ==
    /\ calls < MaxCalls
    /\ LET questions_raw == re_split(extracted)
           pairs == LoopPairs(questions_raw, 1)
       IN  /\ questions' = questions \o LoopRecords(pairs)
           /\ considered' = pairs
    /\ before' = Len(questions)
    /\ calls' = calls + 1
    /\ UNCHANGED <<batch_vars, doc, extracted, san_vars, det_vars, blk_vars, proc_vars, save_vars>>

Next == ParseQuestions

Spec == Init /\ [][Next]_vars

\* the records the last call of parse_questions appended
Appended == SubSeq(questions, before + 1, Len(questions))

\* the (question_no, content) pair of each block of Library, parsed on its own
LibraryPairs == [b \in 1..Len(Library) |-> LoopPairs(re_split(Library[b]), 1)[1]]

PairOf(b) == LibraryPairs[b]

\* the blocks of Library on which parse_question_content raises its internal
\* error
FailingBlocks ==
    {b \in 1..Len(Library) :
        parse_question_content(PairOf(b).question_no, PairOf(b).content) = <<>>}

Fails(b) == b \in FailingBlocks

\* what parse_questions appends for each text of the model
RecordsOf == [d \in Docs |-> LoopRecords(LoopPairs(re_split(TextOf(d)), 1))]

\* the indexes at which r'QUESTION NO:\s*(\d+)' matches in s, and the numbers
\* that follow the marker there, in the order of the indexes
MarkerStarts(s) == {i \in 1..Len(s) : QuestionPatternEnd(s, i) # 0}

MarkerNumbers(s) ==
    LET starts == MarkerStarts(s)
        Nth(n) == CHOOSE j \in starts : Cardinality({m \in starts : m < j}) = n - 1
        Digits(i) == SkipSpaces(s, i + Len(QUESTION_NO))
    IN  [n \in 1..Cardinality(starts) |->
            SubSeq(s, Digits(Nth(n)), SkipDigits(s, Digits(Nth(n))) - 1)]

\* a is b with some elements left out
RECURSIVE IsSubsequence(_, _)
IsSubsequence(a, b) ==
    IF a = <<>> THEN TRUE
    ELSE IF b = <<>> THEN FALSE
    ELSE IF a[1] = b[1] THEN IsSubsequence(Tail(a), Tail(b))
    ELSE IsSubsequence(a, Tail(b))

\* C1: for a text with k occurrences of the marker "QUESTION NO:" followed by
\* a decimal integer, parse_questions considers exactly k (question number,
\* content block) pairs, the numbers of the markers in their order in the
\* text, and the records it appends are in the order of their markers.
C1_SegmenterOrder ==
    calls > 0 =>
        /\ Len(considered) = Cardinality(MarkerStarts(extracted))
        /\ Len(considered) = Len(doc.blocks)
        /\ [n \in 1..Len(considered) |-> considered[n].question_no]
               = MarkerNumbers(extracted)
        /\ IsSubsequence([n \in 1..Len(Appended) |-> Appended[n].question_no],
                         [n \in 1..Len(considered) |-> considered[n].question_no])

\* parse_questions ran on a text with a prelude and two different blocks that
\* both gave a record
C1_Witness ==
    /\ calls > 0
    /\ doc.prelude
    /\ Len(considered) = 2
    /\ Len(Appended) = 2
    /\ Appended[1].question_no # Appended[2].question_no

\* the blocks of doc that do not fail, in their order
GoodBlocks == SelectSeq(doc.blocks, LAMBDA b : ~Fails(b))

\* C3: when parsing one block raises an internal error, that block alone is
\* skipped: its question number is not among the records appended, and the
\* records appended are those of the same text without the failing blocks.
C3_FailureIsolated ==
    calls > 0 =>
        /\ Appended = RecordsOf[[doc EXCEPT !.blocks = GoodBlocks]]
        /\ Len(Appended) = Len(GoodBlocks)
        /\ \A n \in 1..Len(doc.blocks) :
              Fails(doc.blocks[n]) =>
                 \A j \in 1..Len(Appended) :
                    Appended[j].question_no # PairOf(doc.blocks[n]).question_no

\* parse_questions ran on a text whose first block fails and whose second
\* block gave a record
C3_Witness ==
    /\ calls > 0
    /\ Len(doc.blocks) = 2
    /\ Fails(doc.blocks[1])
    /\ ~Fails(doc.blocks[2])
    /\ Len(Appended) = 1

\* the nine string fields of a record
StringFields(r) ==
    <<r.question_no, r.question_statement, r.option_A, r.option_B, r.option_C,
      r.option_D, r.correct_answer, r.explanation, r.reference>>

\* C7: the correct_answer of every record of the questions list is the empty
\* string or exactly one of the upper-case letters A, B, C, D.
C7_AnswerLetter ==
    \A n \in 1..Len(questions) :
        questions[n].correct_answer \in {<<>>, <<65>>, <<66>>, <<67>>, <<68>>}

\* the list holds a record whose answer marker was written in lower case
\* ("answer: b" of Block3) and a record with no answer
C7_Witness ==
    /\ \E n \in 1..Len(questions) :
          /\ questions[n].question_no = <<51>>
          /\ questions[n].correct_answer = <<66>>
    /\ \E n \in 1..Len(questions) : questions[n].correct_answer = <<>>

ArithmeticGuide ==
    <<65, 114, 105, 116, 104, 109, 101, 116, 105, 99, 32, 71, 117, 105, 100, 101>>

\* C2: the end-to-end text of two well-formed blocks (Block1, Block2) gives
\* exactly 2 records, the first of type text with correct_answer "B",
\* option_B "4" and reference "Arithmetic Guide".
C2_EndToEnd ==
    (doc = [prelude |-> FALSE, blocks |-> <<1, 2>>] /\ calls = 1) =>
        /\ Len(questions) = 2
        /\ questions[1].question_type = "text"
        /\ questions[1].correct_answer = <<66>>
        /\ questions[1].option_B = <<52>>
        /\ questions[1].reference = ArithmeticGuide

\* C4: a block whose explanation holds a citation matching the first
\* reference pattern gives a record whose reference is the captured citation
\* and whose explanation no longer holds it.
C4_ReferenceExtracted ==
    calls > 0 =>
        \A n \in 1..Len(considered) :
            LET explanation == Explanation(considered[n].content)
                citation == ReferencePattern1(explanation)
            IN  citation # <<>> =>
                   \E j \in 1..Len(Appended) :
                      /\ Appended[j].question_no = considered[n].question_no
                      /\ Appended[j].reference = citation
                      /\ ~Contains(Appended[j].explanation, citation)

\* C5: a block with a non-empty explanation in which no reference pattern
\* can match (it holds none of the words the patterns need) gives a record
\* with an empty reference and the collapsed explanation, unmodified.
C5_NoReference ==
    calls > 0 =>
        \A n \in 1..Len(considered) :
            LET explanation == Explanation(considered[n].content)
            IN  (/\ explanation # <<>>
                 /\ \A c \in 1..Len(ReferenceCues) :
                       ~Contains(explanation, ReferenceCues[c])) =>
                   \E j \in 1..Len(Appended) :
                      /\ Appended[j].question_no = considered[n].question_no
                      /\ Appended[j].reference = <<>>
                      /\ Appended[j].explanation = explanation

\* C6: every record has the four option fields, and a block that lacks the
\* "D." marker still gives a record, with option_D = "".
C6_MissingOptionD ==
    /\ \A n \in 1..Len(questions) :
          {"option_A", "option_B", "option_C", "option_D"}
              \subseteq DOMAIN questions[n]
    /\ calls > 0 =>
          \A n \in 1..Len(considered) :
              ~Contains(considered[n].content, <<68, 46>>) =>
                 \E j \in 1..Len(Appended) :
                    /\ Appended[j].question_no = considered[n].question_no
                    /\ Appended[j].option_D = <<>>

-----------------------------------------------------------------------------
(* Specification SpecSanitize: sanitize_text applied to every string over  *)
(* SanAlphabet of length at most MaxLen, then applied again to its result. *)

MaxLen == 4

MaxApply == 2

\* NUL, BEL (a control character that is not white space), tab, newline,
\* carriage return, \x1f (a control character that str.strip() treats as
\* white space), space, 'a'
SanAlphabet == {0, 7, 9, 10, 13, 31, 32, 97}

SanStrings == UNION {[1..n -> SanAlphabet] : n \in 0..MaxLen}

InitSanitize ==
    /\ san_in \in SanStrings
    /\ san_outs = <<>>
    /\ ParseIdle
    /\ DetIdle
    /\ BlkIdle
    /\ ProcIdle
    /\ SaveIdle
    /\ BatchIdle

\* one call of sanitize_text, on the argument or on the previous result
Sanitize ==
    /\ Len(san_outs) < MaxApply
    /\ san_outs' = Append(san_outs,
                          sanitize_text(IF san_outs = <<>> THEN san_in
                                        ELSE san_outs[Len(san_outs)]))
    /\ UNCHANGED <<batch_vars, san_in, parse_vars, det_vars, blk_vars, proc_vars, save_vars>>

NextSanitize == Sanitize

SpecSanitize == InitSanitize /\ [][NextSanitize]_vars

\* C8: sanitize_text is idempotent, sanitize_text(sanitize_text(s)) =
\* sanitize_text(s) for every string s, and its result holds no character
\* with code point below 32 other than newline and tab.
C8_SanitizeIdempotent ==
    /\ \A n \in 2..Len(san_outs) : san_outs[n] = san_outs[n - 1]
    /\ \A n \in 1..Len(san_outs) :
         \A i \in 1..Len(san_outs[n]) :
            san_outs[n][i] < 32 => san_outs[n][i] \in {10, 9}

\* sanitize_text was applied twice to an input holding a NUL, a carriage
\* return and a BEL, and something is left of it
C8_Witness ==
    /\ Len(san_outs) >= 2
    /\ \E i \in 1..Len(san_in) : san_in[i] = 0
    /\ \E i \in 1..Len(san_in) : san_in[i] = 13
    /\ \E i \in 1..Len(san_in) : san_in[i] = 7
    /\ san_outs[1] # <<>>
    /\ san_outs[1] # san_in

-----------------------------------------------------------------------------
(* Specification SpecDetect: detect_question_type applied to a statement   *)
(* (a head followed by a tail) and an options string.                      *)

\* '', 'Choose one' (10 characters), 'Which one is right?' (19),
\* 'Which one is better?' (20), 'Which option would you pick to' (30)
StatementHeads == {
    <<>>,
    <<67, 104, 111, 111, 115, 101, 32, 111, 110, 101>>,
    <<87, 104, 105, 99, 104, 32, 111, 110, 101, 32, 105, 115, 32, 114, 105, 103,
      104, 116, 63>>,
    <<87, 104, 105, 99, 104, 32, 111, 110, 101, 32, 105, 115, 32, 98, 101, 116,
      116, 101, 114, 63>>,
    <<87, 104, 105, 99, 104, 32, 111, 112, 116, 105, 111, 110, 32, 119, 111, 117,
      108, 100, 32, 121, 111, 117, 32, 112, 105, 99, 107, 32, 116, 111>>}

\* '', ' see', ' refer to', ' See The Figure', ' EXHIBIT 1', ' now', '   '
StatementTails == {
    <<>>,
    <<32, 115, 101, 101>>,
    <<32, 114, 101, 102, 101, 114, 32, 116, 111>>,
    <<32, 83, 101, 101, 32, 84, 104, 101, 32, 70, 105, 103, 117, 114, 101>>,
    <<32, 69, 88, 72, 73, 66, 73, 84, 32, 49>>,
    <<32, 110, 111, 119>>,
    <<32, 32, 32>>}

\* '', '3 4 5 6', 'the red one', 'a Diagram b c', 'To the left'
OptionTexts == {
    <<>>,
    <<51, 32, 52, 32, 53, 32, 54>>,
    <<116, 104, 101, 32, 114, 101, 100, 32, 111, 110, 101>>,
    <<97, 32, 68, 105, 97, 103, 114, 97, 109, 32, 98, 32, 99>>,
    <<84, 111, 32, 116, 104, 101, 32, 108, 101, 102, 116>>}

InitDetect ==
    /\ \E h \in StatementHeads : \E t \in StatementTails : det_statement = h \o t
    /\ det_options \in OptionTexts
    /\ det_result = "pending"
    /\ ParseIdle
    /\ SanIdle
    /\ BlkIdle
    /\ ProcIdle
    /\ SaveIdle
    /\ BatchIdle

\* one call of detect_question_type(question_statement, options)
Detect ==
    /\ det_result = "pending"
    /\ det_result' = detect_question_type(det_statement, det_options)
    /\ UNCHANGED <<batch_vars, det_statement, det_options, parse_vars, san_vars, blk_vars,
                   proc_vars, save_vars>>

NextDetect == Detect

SpecDetect == InitDetect /\ [][NextDetect]_vars

\* s holds one of the fixed keywords, letter case ignored
HasKeyword(s) ==
    \E n \in 1..Len(image_indicators) :
        \E i \in 1..Len(s) : StartsAtI(s, image_indicators[n], i)

\* the combined text the search runs on: statement, a space, options
Combined == det_statement \o <<32>> \o det_options

\* C10 (as amended): detect_question_type returns image when the combined
\* text (statement, one space, options) holds a keyword, letter case ignored;
\* otherwise image when the trimmed statement is shorter than 20 characters;
\* otherwise text.  Hence a statement of 10 characters is image, and a
\* statement of at least 20 characters is text when the combined text holds
\* no keyword.
C10_Classifier ==
    det_result # "pending" =>
        /\ det_result = IF HasKeyword(Combined) THEN "image"
                        ELSE IF Len(Strip(det_statement)) < 20 THEN "image"
                        ELSE "text"
        /\ Len(det_statement) = 10 => det_result = "image"
        /\ (Len(Strip(det_statement)) >= 20 /\ ~HasKeyword(Combined)) =>
               det_result = "text"

\* the case that sets the amended claim apart: a statement of at least 20
\* characters, no keyword in the statement and none in the options, and a
\* keyword ('see the', 'refer to the') across the space that joins them
C10_Witness ==
    /\ det_result = "image"
    /\ Len(Strip(det_statement)) >= 20
    /\ ~HasKeyword(det_statement)
    /\ ~HasKeyword(det_options)
    /\ HasKeyword(Combined)

\* C10 (as claimed): ... a statement of at least 20 characters with no keyword
\* in statement or options is text.
C10_Original ==
    det_result # "pending" =>
        /\ HasKeyword(Combined) => det_result = "image"
        /\ Len(det_statement) = 10 => det_result = "image"
        /\ (/\ Len(Strip(det_statement)) >= 20
            /\ ~HasKeyword(det_statement)
            /\ ~HasKeyword(det_options)) => det_result = "text"


-----------------------------------------------------------------------------
(* Texts with fewer than two markers, under Spec.                          *)

\* C17 as the specification words it: when the text holds fewer than 2
\* occurrences of the question marker (none, or exactly one), parse_questions
\* adds no record to the questions list.  The text of doc has one marker per
\* block (C1_SegmenterOrder).
C17_Original ==
    (calls > 0 /\ Len(doc.blocks) < 2) => Appended = <<>>

\* C17: when the text holds no occurrence of the question marker,
\* parse_questions adds no record to the questions list; when it holds exactly
\* one, parse_questions hands the block after that marker to
\* parse_question_content and adds its record, the question_no that of the
\* marker, unless the block fails.
C17_FewMarkers ==
    calls > 0 =>
        /\ Len(doc.blocks) = 0 => (considered = <<>> /\ Appended = <<>>)
        /\ Len(doc.blocks) = 1 =>
              /\ considered = <<PairOf(doc.blocks[1])>>
              /\ IF Fails(doc.blocks[1]) THEN Appended = <<>>
                 ELSE /\ Len(Appended) = 1
                      /\ Appended[1].question_no = MarkerNumbers(extracted)[1]

\* parse_questions ran on a text with exactly one marker, after a prelude, and
\* added the record of its block
C17_Witness ==
    /\ calls > 0
    /\ doc.prelude
    /\ Len(doc.blocks) = 1
    /\ Cardinality(MarkerStarts(extracted)) = 1
    /\ Len(Appended) = 1
    /\ Appended[1].question_no = <<54>>


-----------------------------------------------------------------------------
(* Specification SpecBlock: parse_question_content and extract_option      *)
(* applied to the content of one block, made of a statement, the options   *)
(* A to C, the option D, an answer line and an explanation, each of which  *)
(* may be missing.                                                         *)

\* the statement: '\nWhich port does the secure shell use?\n', '\nPlan B. or plan C. Which one holds?\n', ''
BlockHeads == {
    <<10, 87, 104, 105, 99, 104, 32, 112, 111, 114, 116, 32, 100, 111, 101,
      115, 32, 116, 104, 101, 32, 115, 101, 99, 117, 114, 101, 32, 115,
      104, 101, 108, 108, 32, 117, 115, 101, 63, 10>>,
    <<10, 80, 108, 97, 110, 32, 66, 46, 32, 111, 114, 32, 112, 108, 97,
      110, 32, 67, 46, 32, 87, 104, 105, 99, 104, 32, 111, 110, 101, 32,
      104, 111, 108, 100, 115, 63, 10>>,
    <<>>}

\* the options A to C: 'A. 21\nB. 22\nC. 23\n', 'A. foo B. bar C. baz ', ''
BlockOptionsABC == {
    <<65, 46, 32, 50, 49, 10, 66, 46, 32, 50, 50, 10, 67, 46, 32, 50, 51, 10>>,
    <<65, 46, 32, 102, 111, 111, 32, 66, 46, 32, 98, 97, 114, 32, 67, 46,
      32, 98, 97, 122, 32>>,
    <<>>}

\* the option D: 'D. 25\n', 'D. qux ', 'D. NONE. of these\n', ''
BlockOptionD == {
    <<68, 46, 32, 50, 53, 10>>,
    <<68, 46, 32, 113, 117, 120, 32>>,
    <<68, 46, 32, 78, 79, 78, 69, 46, 32, 111, 102, 32, 116, 104, 101, 115,
      101, 10>>,
    <<>>}

\* the answer line:
\* 'ANSWER: B',
\* 'answer: c\n',
\* '',
\* 'ANSWER: see below\nANSWER: D\n',
\* 'Answer:\n a\n',
\* 'ANSWER: E\n'
BlockAnswers == {
    <<65, 78, 83, 87, 69, 82, 58, 32, 66>>,
    <<97, 110, 115, 119, 101, 114, 58, 32, 99, 10>>,
    <<>>,
    <<65, 78, 83, 87, 69, 82, 58, 32, 115, 101, 101, 32, 98, 101, 108, 111,
      119, 10, 65, 78, 83, 87, 69, 82, 58, 32, 68, 10>>,
    <<65, 110, 115, 119, 101, 114, 58, 10, 32, 97, 10>>,
    <<65, 78, 83, 87, 69, 82, 58, 32, 69, 10>>}

\* the explanation: '', 'Explanation: Port 22.\n'
BlockExplanations == {
    <<>>,
    <<69, 120, 112, 108, 97, 110, 97, 116, 105, 111, 110, 58, 32, 80, 111,
      114, 116, 32, 50, 50, 46, 10>>}

InitBlock ==
    /\ blk_no = <<55>>
    /\ \E h \in BlockHeads : \E o \in BlockOptionsABC : \E od \in BlockOptionD :
       \E a \in BlockAnswers : \E e \in BlockExplanations :
           blk_content = h \o o \o od \o a \o e
    /\ blk_result = [done |-> FALSE, value |-> <<>>]
    /\ blk_option = [option_letter |-> 0, text |-> <<>>]
    /\ ParseIdle
    /\ SanIdle
    /\ DetIdle
    /\ ProcIdle
    /\ SaveIdle
    /\ BatchIdle

\* one call of parse_question_content(question_no, content)
ParseBlock ==
    /\ ~blk_result.done
    /\ blk_result' = [done |-> TRUE,
                      value |-> parse_question_content(blk_no, blk_content)]
    /\ UNCHANGED <<batch_vars, blk_no, blk_content, blk_option, parse_vars, san_vars, det_vars,
                   proc_vars, save_vars>>

\* one call of extract_option(text, option_letter), the letter one of A to D
ExtractOption ==
    /\ blk_option.option_letter = 0
    /\ \E option_letter \in 65..68 :
          blk_option' = [option_letter |-> option_letter,
                         text |-> extract_option(blk_content, option_letter)]
    /\ UNCHANGED <<batch_vars, blk_no, blk_content, blk_result, parse_vars, san_vars, det_vars,
                   proc_vars, save_vars>>

NextBlock == ParseBlock \/ ExtractOption

SpecBlock == InitBlock /\ [][NextBlock]_vars

\* the indexes of s at which the letter c is followed by a period
LetterDot(s, c) == {p \in 1..(Len(s) - 1) : s[p] = c /\ s[p + 1] = 46}

\* C18 as the specification words it: the question_statement of a record is
\* the text of the block before the first "A."; when the block holds no "A.",
\* it is the entire block (trimmed and sanitized), not the empty string.
C18_Original ==
    (blk_result.done /\ blk_result.value # <<>>) =>
        LET a == LetterDot(blk_content, 65)
        IN  blk_result.value[1].question_statement =
                sanitize_text(Strip(IF a = {} THEN blk_content
                                    ELSE SubSeq(blk_content, 1, Min(a) - 1)))

\* C18: the question_statement of a record is the text of the block before
\* the first "A.", trimmed and sanitized; when the block holds no "A.", it is
\* the empty string.
C18_Statement ==
    (blk_result.done /\ blk_result.value # <<>>) =>
        LET a == LetterDot(blk_content, 65)
        IN  blk_result.value[1].question_statement =
                IF a = {} THEN <<>>
                ELSE sanitize_text(Strip(SubSeq(blk_content, 1, Min(a) - 1)))

\* parse_question_content gave a record for a block that holds text but no
\* "A."
C18_Witness ==
    /\ blk_result.done
    /\ blk_result.value # <<>>
    /\ LetterDot(blk_content, 65) = {}
    /\ Strip(blk_content) # <<>>
    /\ blk_result.value[1].question_statement = <<>>

\* the text the claim C19 gives for the letter L in the block s: from the
\* first "L." to the first boundary after it, trimmed; the boundaries are the
\* marker of the next letter (none for D), "ANSWER:" and the end of the block
TextToBoundary(s, L) ==
    LET at == LetterDot(s, L)
    IN  IF at = {} THEN <<>>
        ELSE LET k == Min(at) + 2
                 boundaries == {p \in k..(Len(s) + 1) :
                                  \/ p = Len(s) + 1
                                  \/ StartsAt(s, ANSWER, p)
                                  \/ L < 68 /\ StartsAt(s, <<L + 1, 46>>, p)}
             IN  Strip(SubSeq(s, k, Min(boundaries) - 1))

\* 'A. foo B. bar C. baz D. qux ANSWER: B'
FooBarBaz ==
    <<65, 46, 32, 102, 111, 111, 32, 66, 46, 32, 98, 97, 114, 32, 67, 46,
      32, 98, 97, 122, 32, 68, 46, 32, 113, 117, 120, 32, 65, 78, 83, 87,
      69, 82, 58, 32, 66>>

\* C19: for each letter L of A to D, extract_option returns the trimmed text
\* between the first "L." and the first boundary that follows it, the
\* boundaries being the marker of the next option letter, "ANSWER:" and the
\* end of the block, and nothing else (for D: "ANSWER:" and the end of the
\* block only); in "A. foo B. bar C. baz D. qux ANSWER: B" option A is "foo"
\* and option D is "qux".
C19_Boundaries ==
    blk_option.option_letter # 0 =>
        /\ blk_option.text = TextToBoundary(blk_content, blk_option.option_letter)
        /\ (blk_content = FooBarBaz /\ blk_option.option_letter = 65) =>
               blk_option.text = <<102, 111, 111>>
        /\ (blk_content = FooBarBaz /\ blk_option.option_letter = 68) =>
               blk_option.text = <<113, 117, 120>>

\* the indexes of s at which "ANSWER:", in any letter case, is followed by
\* optional white space and one of the letters A to D, in either case
AnswerMarks(s) ==
    {i \in 1..Len(s) :
        /\ StartsAtI(s, ANSWER, i)
        /\ SkipSpaces(s, i + Len(ANSWER)) <= Len(s)
        /\ s[SkipSpaces(s, i + Len(ANSWER))] \in (65..68) \cup (97..100)}

\* C20: the correct_answer of a record is the letter that follows the first
\* "ANSWER:" of the block, marker and letter matched in any letter case, in
\* upper case; a block with no such marker followed by a letter of A to D still
\* gives a record, and its correct_answer is the empty string.
C20_Answer ==
    blk_result.done =>
        LET marks == AnswerMarks(blk_content)
            letter == blk_content[SkipSpaces(blk_content, Min(marks) + Len(ANSWER))]
        IN  IF marks = {}
            THEN /\ blk_result.value # <<>>
                 /\ blk_result.value[1].correct_answer = <<>>
            ELSE blk_result.value # <<>> =>
                     blk_result.value[1].correct_answer =
                         <<IF letter >= 97 THEN letter - 32 ELSE letter>>


\* the options of the record r
OptionTextsOf(r) == <<r.option_A, r.option_B, r.option_C, r.option_D>>

\* C21: whenever a record has a non-empty correct_answer, none of its option
\* texts holds the answer marker that produced it, as it is written in the
\* block: the marker recognised as the answer, in any letter case, also ends
\* the options.
C21_MarkerEndsOptions ==
    (/\ blk_result.done
     /\ blk_result.value # <<>>
     /\ blk_result.value[1].correct_answer # <<>>) =>
        LET at == Min(AnswerMarks(blk_content))
            marker == SubSeq(blk_content, at, at + Len(ANSWER) - 1)
        IN  \A k \in 1..4 :
                ~Contains(OptionTextsOf(blk_result.value[1])[k], marker)

-----------------------------------------------------------------------------
(* Specification SpecProcess: process(use_ocr) called up to MaxCalls times *)
(* on one extractor.  What the file at pdf_path is may differ from call to *)
(* call: a document that PyPDF2 reads (one page for the prelude and one    *)
(* for each block), no file, a file that is no PDF, or a PDF that          *)
(* decrypt('') does not open.                                              *)

\* the documents the file may be when it is readable: Block6 alone, the
\* prelude and Block4, Block1 alone (the block that fails), Block3 alone (its
\* answer line is written in lower case)
ProcessDocs == {
    [prelude |-> FALSE, blocks |-> <<6>>],
    [prelude |-> TRUE, blocks |-> <<4>>],
    [prelude |-> FALSE, blocks |-> <<1>>],
    [prelude |-> FALSE, blocks |-> <<3>>]}

\* the ways the reading of the file fails
Failures == {"missing", "unreadable", "encrypted"}

\* 'Figure 1: network diagram\n', what is read above the first question of a
\* scanned page
ScanCaption ==
    <<70, 105, 103, 117, 114, 101, 32, 49, 58, 32, 110, 101, 116, 119, 111,
      114, 107, 32, 100, 105, 97, 103, 114, 97, 109, 10>>

\* what pytesseract reads from the images of the pages of a readable file:
\* convert_from_path raises (no poppler), or there is one page, Block7, with
\* or without a caption above it
OcrOutcomes == {
    [raised |-> TRUE, pages |-> <<>>],
    [raised |-> FALSE, pages |-> <<Library[7]>>],
    [raised |-> FALSE, pages |-> <<ScanCaption \o Library[7]>>]}

\* the text of the pages of d, as page.extract_text() gives them
Pages(d) ==
    (IF d.prelude THEN <<Prelude>> ELSE <<>>)
        \o [n \in 1..Len(d.blocks) |-> Library[d.blocks[n]]]

\* extract_text_from_pdf, the loop over the pages: text += page_text + "\n"
\* for every page that gives text
RECURSIVE PagesText(_)
PagesText(pages) ==
    IF pages = <<>> THEN <<>>
    ELSE (IF pages[1] # <<>> THEN pages[1] \o <<10>> ELSE <<>>)
             \o PagesText(Tail(pages))

\* PDFQuestionExtractor.extract_text_from_pdf: "" when open() or PdfReader
\* raises (no file, no PDF), when the file is encrypted and is not opened by
\* decrypt('') (decrypt raises, or the read of the pages does), else the text
\* of the pages
extract_text_from_pdf(src, d) ==
    IF src \in Failures THEN <<>> ELSE PagesText(Pages(d))

\* extract_text_from_images, the loop over the images:
\* ocr_text += pytesseract.image_to_string(image) + "\n"
RECURSIVE ImagesText(_)
ImagesText(images) ==
    IF images = <<>> THEN <<>>
    ELSE images[1] \o <<10>> \o ImagesText(Tail(images))

\* PDFQuestionExtractor.extract_text_from_images: "" without the libraries
\* and when convert_from_path raises, as it does on a file it cannot read
extract_text_from_images(available, src, outcome) ==
    IF ~available THEN <<>>
    ELSE IF src \in Failures \/ outcome.raised THEN <<>>
    ELSE ImagesText(outcome.pages)

InitProcess ==
    /\ doc = [prelude |-> FALSE, blocks |-> <<>>]
    /\ extracted = <<>>
    /\ questions = <<>>
    /\ considered = <<>>
    /\ before = 0
    /\ calls = 0
    /\ source = "none"
    /\ ocr_available \in BOOLEAN
    /\ use_ocr = FALSE
    /\ returned = <<>>
    /\ SanIdle
    /\ DetIdle
    /\ BlkIdle
    /\ SaveIdle
    /\ BatchIdle

\* PDFQuestionExtractor.process(use_ocr=u) when the file is src and holds d,
\* and OCR, if it runs, ends as outcome
ProcessOn(src, d, u, outcome) ==
    LET pdf_text == extract_text_from_pdf(src, d)
        text == IF u /\ ocr_available
                THEN pdf_text \o <<10>>
                         \o extract_text_from_images(ocr_available, src, outcome)
                ELSE pdf_text
        pairs == LoopPairs(re_split(text), 1)
    IN  /\ source' = src
        /\ doc' = d
        /\ use_ocr' = u
        /\ extracted' = text
        /\ considered' = pairs
        /\ questions' = questions \o LoopRecords(pairs)
        /\ before' = Len(questions)
        /\ calls' = calls + 1
        /\ returned' = questions'
        /\ UNCHANGED <<batch_vars, ocr_available, san_vars, det_vars, blk_vars, save_vars>>

\* one call of process; the file is read anew at each call
Process ==
    /\ calls < MaxCalls
    /\ \/ \E d \in ProcessDocs : \E u \in BOOLEAN :
             \E outcome \in (IF u /\ ocr_available THEN OcrOutcomes
                              ELSE {[raised |-> TRUE, pages |-> <<>>]}) :
                 ProcessOn("readable", d, u, outcome)
       \/ \E src \in Failures : \E u \in BOOLEAN :
             ProcessOn(src, [prelude |-> FALSE, blocks |-> <<>>], u,
                       [raised |-> TRUE, pages |-> <<>>])

NextProcess == Process

SpecProcess == InitProcess /\ [][NextProcess]_vars

\* C11: the list a call of process returns holds the records parsed from the
\* text acquired in that call, and only them: no record of an earlier call.
C11_OwnRecords ==
    calls > 0 => returned = Appended

\* C12: when the file is missing, unreadable, or encrypted and not opened by
\* the empty password, process returns an empty list of records.
C12_NoSource ==
    (calls > 0 /\ source \in Failures) => returned = <<>>


\* C22: with use_ocr and the OCR libraries, the records of the blocks of the
\* text of the PDF are those that process appends without OCR, and the records
\* of the OCR text follow them: what OCR reads above its first marker is
\* dropped and is no part of the last block of the PDF.
C22_OcrOnlyAdds ==
    (calls > 0 /\ use_ocr /\ ocr_available /\ source = "readable") =>
        LET primary == LoopRecords(LoopPairs(
                           re_split(extract_text_from_pdf(source, doc)), 1))
        IN  /\ Len(Appended) >= Len(primary)
            /\ SubSeq(Appended, 1, Len(primary)) = primary

-----------------------------------------------------------------------------
(* Specification SpecSave: an extractor that has parsed its text up to     *)
(* MaxCalls times, and then one export operation: save, save_all, one of   *)
(* the four writers, get_questions or get_questions_by_type.  The export   *)
(* operations leave self.questions alone, so one of them is followed at a  *)
(* time.  A file name is a stem and an extension, each a sequence of       *)
(* pieces; None is written "None".                                         *)

\* PDFQuestionExtractor.SUPPORTED_FORMATS
SUPPORTED_FORMATS == <<"json", "excel", "csv", "pdf">>

\* x in xs, for a Python list xs
InList(x, xs) == \E n \in 1..Len(xs) : xs[n] = x

\* column_order of save_to_excel and save_to_csv
column_order ==
    <<"question_no", "question_type", "question_statement", "option_A",
      "option_B", "option_C", "option_D", "correct_answer", "explanation",
      "reference">>

\* A slip the uniform filter would catch: the filter ignored, every record
\* selected.
filtered_questions_all(qs, question_type) == qs

\* the writers and get_questions_by_type: filtered_questions =
\* [q for q in self.questions if q['question_type'] == question_type] under
\* `if question_type:`, else self.questions
filtered_questions(qs, question_type) ==
    IF question_type # "None"
    THEN SelectSeq(qs, LAMBDA q : q.question_type = question_type)
    ELSE qs

\* the number of records of qs of the type t
CountType(qs, t) == Len(SelectSeq(qs, LAMBDA q : q.question_type = t))

\* PDFQuestionExtractor.get_summary
get_summary(qs) ==
    [total |-> Len(qs),
     text_based |-> CountType(qs, "text"),
     image_based |-> CountType(qs, "image")]

\* A slip the round trip through the JSON writer would catch: the texts of the
\* options C and D exchanged.
question_entry_swapped(q) ==
    [question_no |-> q.question_no,
     question_type |-> q.question_type,
     question_statement |-> q.question_statement,
     options |-> << [key |-> "A", text |-> q.option_A],
                    [key |-> "B", text |-> q.option_B],
                    [key |-> "C", text |-> q.option_D],
                    [key |-> "D", text |-> q.option_C] >>,
     correct_answer |-> q.correct_answer,
     explanation |-> q.explanation,
     reference |-> q.reference]

\* save_to_json: question_entry of the record q
question_entry(q) ==
    [question_no |-> q.question_no,
     question_type |-> q.question_type,
     question_statement |-> q.question_statement,
     options |-> << [key |-> "A", text |-> q.option_A],
                    [key |-> "B", text |-> q.option_B],
                    [key |-> "C", text |-> q.option_C],
                    [key |-> "D", text |-> q.option_D] >>,
     correct_answer |-> q.correct_answer,
     explanation |-> q.explanation,
     reference |-> q.reference]

\* save_to_json: json_data, the structure json.dump writes; extracted_date,
\* the time of the call, is left out
json_data(filtered, question_type) ==
    [metadata |-> [total_questions |-> Len(filtered),
                   text_based |-> CountType(filtered, "text"),
                   image_based |-> CountType(filtered, "image"),
                   filter |-> IF question_type # "None" THEN question_type
                              ELSE "all"],
     questions |-> [n \in 1..Len(filtered) |-> question_entry(filtered[n])]]

\* the values of the record q in the order of column_order
Row(q) ==
    <<q.question_no, q.question_type, q.question_statement, q.option_A,
      q.option_B, q.option_C, q.option_D, q.correct_answer, q.explanation,
      q.reference>>

\* save_to_excel: df[column_order], one row for each record; save_to_csv:
\* writeheader() and one writerow for each record
Table(filtered) ==
    [header |-> column_order,
     rows |-> [n \in 1..Len(filtered) |-> Row(filtered[n])]]

\* '&amp;'
AMP == <<38, 97, 109, 112, 59>>

\* '&lt;'
LT == <<38, 108, 116, 59>>

\* '&gt;'
GT == <<38, 103, 116, 59>>

\* PDFQuestionExtractor._escape_html
escape_html(text) ==
    IF text = <<>> THEN <<>>
    ELSE Replace(Replace(Replace(text, <<38>>, AMP), <<60>>, LT), <<62>>, GT)

\* save_to_pdf: the paragraphs of the record q: header, statement, the four
\* options with the correct one marked, answer, and explanation and
\* reference when there are any
PdfBlock(q) ==
    LET option_text(k) ==
            escape_html(CASE k = 1 -> q.option_A [] k = 2 -> q.option_B
                          [] k = 3 -> q.option_C [] k = 4 -> q.option_D)
    IN  [q_header |-> <<q.question_no,
                        IF q.question_type = "text" THEN "TEXT" ELSE "IMAGE">>,
         q_text |-> escape_html(q.question_statement),
         options |-> [k \in 1..4 |->
                        [option_key |-> <<64 + k>>,
                         option_text |-> option_text(k),
                         is_correct |-> q.correct_answer = <<64 + k>>]],
         answer_text |-> q.correct_answer,
         exp_text |-> IF q.explanation # <<>>
                      THEN <<escape_html(q.explanation)>> ELSE <<>>,
         ref_text |-> IF q.reference # <<>>
                      THEN <<escape_html(q.reference)>> ELSE <<>>]

\* save_to_pdf: the elements of the document
PdfElements(filtered) ==
    [metadata_text |-> <<Len(filtered), CountType(filtered, "text"),
                         CountType(filtered, "image")>>,
     blocks |-> [n \in 1..Len(filtered) |-> PdfBlock(filtered[n])]]

\* what the writer of the name w puts in its file for the records filtered
ContentOf(w, filtered, question_type) ==
    CASE w = "save_to_json" -> json_data(filtered, question_type)
      [] w = "save_to_excel" -> Table(filtered)
      [] w = "save_to_csv" -> Table(filtered)
      [] w = "save_to_pdf" -> PdfElements(filtered)

\* save_to_json, save_to_excel, save_to_csv, save_to_pdf: the files written
\* (one or none) by the writer w called on the list qs with output_file and
\* question_type, reportlab installed or not
Writer(w, qs, reportlab, output_file, question_type) ==
    IF w = "save_to_pdf" /\ ~reportlab THEN <<>>
    ELSE IF qs = <<>> THEN <<>>
    ELSE IF question_type # "None" /\ filtered_questions(qs, question_type) = <<>>
    THEN <<>>
    ELSE << [output_file |-> output_file,
             writer |-> w,
             question_type |-> question_type,
             content |-> ContentOf(w, filtered_questions(qs, question_type),
                                   question_type)] >>

\* os.path.splitext(output_file)[0]
base_name(output_file) == output_file.stem

\* f"{base_name}.json" and the like
WithExtension(base, extension) == [stem |-> base, ext |-> <<extension>>]

\* f"{base_filename}_all" and the like: the suffix follows the extension when
\* the name has one
WithSuffix(file, suffix) ==
    IF file.ext = <<>> THEN [stem |-> Append(file.stem, suffix), ext |-> <<>>]
    ELSE [stem |-> file.stem, ext |-> Append(file.ext, suffix)]

\* save, one branch of the if/elif chain: the writer w called on file_path,
\* and file_path appended to saved_files
CallWriter(w, qs, reportlab, file_path, question_type) ==
    [invoked |-> <<[writer |-> w, output_file |-> file_path,
                    question_type |-> question_type]>>,
     written |-> Writer(w, qs, reportlab, file_path, question_type),
     saved_files |-> <<file_path>>]

\* save, the body of the loop for the format fmt: a format other than json,
\* excel and csv falls through the if/elif chain
SaveFormat(fmt, qs, reportlab, base, question_type) ==
    IF fmt = "json"
    THEN CallWriter("save_to_json", qs, reportlab, WithExtension(base, ".json"),
                    question_type)
    ELSE IF fmt = "excel"
    THEN CallWriter("save_to_excel", qs, reportlab, WithExtension(base, ".xlsx"),
                    question_type)
    ELSE IF fmt = "csv"
    THEN CallWriter("save_to_csv", qs, reportlab, WithExtension(base, ".csv"),
                    question_type)
    ELSE [invoked |-> <<>>, written |-> <<>>, saved_files |-> <<>>]

\* the effects of one turn of the loop followed by those of the rest
ThenLoop(first, rest) ==
    [invoked |-> first.invoked \o rest.invoked,
     written |-> first.written \o rest.written,
     saved_files |-> first.saved_files \o rest.saved_files]

\* save, the loop `for fmt in formats`: the writers called, the files written
\* and the paths appended to saved_files
RECURSIVE SaveLoop(_, _, _, _, _)
SaveLoop(formats, qs, reportlab, base, question_type) ==
    IF formats = <<>> THEN [invoked |-> <<>>, written |-> <<>>, saved_files |-> <<>>]
    ELSE ThenLoop(SaveFormat(formats[1], qs, reportlab, base, question_type),
                  SaveLoop(Tail(formats), qs, reportlab, base, question_type))

\* save, the validation: the formats left, all of them when none is invalid,
\* and ['json'] when none is left
ValidFormats(formats) ==
    IF \E n \in 1..Len(formats) : ~InList(formats[n], SUPPORTED_FORMATS)
    THEN IF \E n \in 1..Len(formats) : InList(formats[n], SUPPORTED_FORMATS)
         THEN SelectSeq(formats, LAMBDA fmt : InList(fmt, SUPPORTED_FORMATS))
         ELSE <<"json">>
    ELSE IF formats = <<>> THEN <<"json">> ELSE formats

\* save, past the loop: what was reported and done, and saved_files returned
SaveDone(invalid, loop) ==
    [invalid_formats |-> invalid, invoked |-> loop.invoked,
     written |-> loop.written,
     result |-> [kind |-> "list", value |-> loop.saved_files]]

\* PDFQuestionExtractor.save(output_file, formats, question_type): the formats
\* reported as invalid, the writers called, the files written and the value
\* returned
save(qs, reportlab, output_file, formats, question_type) ==
    IF qs = <<>>
    THEN [invalid_formats |-> <<>>, invoked |-> <<>>, written |-> <<>>,
          result |-> [kind |-> "None", value |-> <<>>]]
    ELSE SaveDone(SelectSeq(formats, LAMBDA fmt : ~InList(fmt, SUPPORTED_FORMATS)),
                  SaveLoop(ValidFormats(formats), qs, reportlab,
                           base_name(output_file), question_type))

\* save_all, separate_by_type: the effects of the three calls of save, one
\* after the other; what they return is dropped
ThreeSaves(all, text_based, image_based) ==
    [invalid_formats |-> all.invalid_formats \o text_based.invalid_formats
                             \o image_based.invalid_formats,
     invoked |-> all.invoked \o text_based.invoked \o image_based.invoked,
     written |-> all.written \o text_based.written \o image_based.written,
     result |-> [kind |-> "None", value |-> <<>>]]

\* save_all, not separate_by_type: the effects of the one call of save
OneSave(single) ==
    [invalid_formats |-> single.invalid_formats,
     invoked |-> single.invoked,
     written |-> single.written,
     result |-> [kind |-> "None", value |-> <<>>]]

\* PDFQuestionExtractor.save_all(base_filename, formats, separate_by_type):
\* three calls of save, or one; nothing is returned
save_all(qs, reportlab, base_filename, formats, separate_by_type) ==
    IF separate_by_type
    THEN ThreeSaves(
             save(qs, reportlab, WithSuffix(base_filename, "_all"), formats, "None"),
             save(qs, reportlab, WithSuffix(base_filename, "_text"), formats, "text"),
             save(qs, reportlab, WithSuffix(base_filename, "_image"), formats,
                  "image"))
    ELSE OneSave(save(qs, reportlab, base_filename, formats, "None"))

\* the texts parsed before the export: no block, Block6, Block3 and Block4,
\* the prelude with Block4 and Block7, Block1 (which fails) and Block6
SaveDocs == {
    [prelude |-> FALSE, blocks |-> <<>>],
    [prelude |-> FALSE, blocks |-> <<6>>],
    [prelude |-> FALSE, blocks |-> <<3, 4>>],
    [prelude |-> TRUE, blocks |-> <<4, 7>>],
    [prelude |-> FALSE, blocks |-> <<1, 6>>]}

\* the values of output_file and base_filename: 'questions_output' and
\* 'questions_output.json'
OutputFiles == {
    [stem |-> <<"questions_output">>, ext |-> <<>>],
    [stem |-> <<"questions_output">>, ext |-> <<".json">>]}

\* the values of formats; ['json', 'pdf'] is the output_formats of
\* run_extractor.py
FormatLists == {
    <<>>,
    <<"json">>,
    <<"json", "pdf">>,
    <<"excel", "csv">>,
    <<"json", "excel", "csv", "pdf">>,
    <<"xml">>,
    <<"json", "xml">>,
    <<"pdf", "xml">>}

\* the values of question_type
Filters == {"None", "text", "image"}

InitSave ==
    /\ doc \in SaveDocs
    /\ extracted = TextOf(doc)
    /\ questions = <<>>
    /\ considered = <<>>
    /\ before = 0
    /\ calls = 0
    /\ reportlab_available \in BOOLEAN
    /\ op = "none"
    /\ arg_file = <<>>
    /\ arg_formats = <<>>
    /\ arg_filter = "None"
    /\ invalid_formats = <<>>
    /\ invoked = <<>>
    /\ written = <<>>
    /\ result = [kind |-> "None", value |-> <<>>]
    /\ SanIdle
    /\ DetIdle
    /\ BlkIdle
    /\ ProcIdle
    /\ BatchIdle

\* parse_questions(text), before the export operation
Extract ==
    /\ op = "none"
    /\ ParseQuestions

\* the call of save or save_all is over: its arguments, and its effects r
Exported(name, file, formats, filter, r) ==
    /\ op' = name
    /\ arg_file' = file
    /\ arg_formats' = formats
    /\ arg_filter' = filter
    /\ invalid_formats' = r.invalid_formats
    /\ invoked' = r.invoked
    /\ written' = r.written
    /\ result' = r.result

\* save(output_file, formats, question_type)
Save ==
    /\ op = "none"
    /\ \E output_file \in OutputFiles : \E formats \in FormatLists :
       \E question_type \in Filters :
           Exported("save", output_file, formats, question_type,
                    save(questions, reportlab_available, output_file, formats,
                         question_type))
    /\ UNCHANGED <<batch_vars, reportlab_available, parse_vars, san_vars, det_vars, blk_vars,
                   proc_vars>>

\* save_all(base_filename, formats, separate_by_type)
SaveAll ==
    /\ op = "none"
    /\ \E base_filename \in OutputFiles : \E formats \in FormatLists :
       \E separate_by_type \in BOOLEAN :
           Exported("save_all", base_filename, formats,
                    IF separate_by_type THEN "separate_by_type" ELSE "None",
                    save_all(questions, reportlab_available, base_filename,
                             formats, separate_by_type))
    /\ UNCHANGED <<batch_vars, reportlab_available, parse_vars, san_vars, det_vars, blk_vars,
                   proc_vars>>

\* save_to_json, save_to_excel, save_to_csv or save_to_pdf called by the user
\* with output_file and question_type
SaveTo ==
    /\ op = "none"
    /\ \E w \in {"save_to_json", "save_to_excel", "save_to_csv", "save_to_pdf"} :
       \E output_file \in OutputFiles : \E question_type \in Filters :
           /\ op' = w
           /\ arg_file' = output_file
           /\ arg_filter' = question_type
           /\ invoked' = <<[writer |-> w, output_file |-> output_file,
                            question_type |-> question_type]>>
           /\ written' = Writer(w, questions, reportlab_available, output_file,
                                question_type)
    /\ UNCHANGED <<batch_vars, reportlab_available, arg_formats, invalid_formats, result,
                   parse_vars, san_vars, det_vars, blk_vars, proc_vars>>

\* get_questions_by_type(question_type)
GetQuestionsByType ==
    /\ op = "none"
    /\ \E question_type \in Filters :
           /\ op' = "get_questions_by_type"
           /\ arg_filter' = question_type
           /\ result' = [kind |-> "list",
                         value |-> SelectSeq(questions,
                                       LAMBDA q : q.question_type = question_type)]
    /\ UNCHANGED <<batch_vars, reportlab_available, arg_file, arg_formats, invalid_formats,
                   invoked, written, parse_vars, san_vars, det_vars, blk_vars,
                   proc_vars>>

\* get_questions()
GetQuestions ==
    /\ op = "none"
    /\ op' = "get_questions"
    /\ result' = [kind |-> "list", value |-> questions]
    /\ UNCHANGED <<batch_vars, reportlab_available, arg_file, arg_formats, arg_filter,
                   invalid_formats, invoked, written, parse_vars, san_vars,
                   det_vars, blk_vars, proc_vars>>

\* get_summary()
GetSummary ==
    /\ op = "none"
    /\ op' = "get_summary"
    /\ result' = [kind |-> "dict", value |-> get_summary(questions)]
    /\ UNCHANGED <<batch_vars, reportlab_available, arg_file, arg_formats, arg_filter,
                   invalid_formats, invoked, written, parse_vars, san_vars,
                   det_vars, blk_vars, proc_vars>>

NextSave ==
    \/ Extract
    \/ Save
    \/ SaveAll
    \/ SaveTo
    \/ GetQuestionsByType
    \/ GetQuestions
    \/ GetSummary

SpecSave == InitSave /\ [][NextSave]_vars


\* the indexes of the records of qs that the filter f selects: all of them for
\* None, else those of the type f
Keep(qs, f) == {n \in 1..Len(qs) : f = "None" \/ qs[n].question_type = f}

\* the records of qs at the indexes of Keep(qs, f), in the order of qs
Chosen(qs, f) ==
    LET keep == Keep(qs, f)
        NthOf(k) == CHOOSE j \in keep : Cardinality({m \in keep : m < j}) = k - 1
    IN  [k \in 1..Cardinality(keep) |-> qs[NthOf(k)]]

\* the names of the four writers
Writers == {"save_to_json", "save_to_excel", "save_to_csv", "save_to_pdf"}

\* C13: the questions array that save_to_json writes without a type filter
\* has one entry for each record of the questions list, in the same order,
\* each with the question_no and the correct_answer of its record and an
\* options array of exactly four entries, keyed A, B, C, D in that order, whose
\* texts are option_A, option_B, option_C, option_D.
C13_JsonRoundTrip ==
    \A i \in 1..Len(written) :
        (written[i].writer = "save_to_json" /\ written[i].question_type = "None") =>
            LET entries == written[i].content.questions
            IN  /\ Len(entries) = Len(questions)
                /\ \A n \in 1..Len(entries) :
                      /\ entries[n].question_no = questions[n].question_no
                      /\ entries[n].correct_answer = questions[n].correct_answer
                      /\ Len(entries[n].options) = 4
                      /\ [k \in 1..4 |-> entries[n].options[k].key]
                             = <<"A", "B", "C", "D">>
                      /\ [k \in 1..4 |-> entries[n].options[k].text]
                             = <<questions[n].option_A, questions[n].option_B,
                                 questions[n].option_C, questions[n].option_D>>

\* save_to_json, called without a filter, wrote the two records of a list
\* whose first record has four different options
C13_Witness ==
    /\ op = "save_to_json"
    /\ arg_filter = "None"
    /\ Len(questions) = 2
    /\ Len(written) = 1
    /\ Len(written[1].content.questions) = 2
    /\ questions[1].option_C # questions[1].option_D
    /\ questions[1].question_no # questions[2].question_no

\* the format that the writer w writes
FormatOf(w) ==
    CASE w = "save_to_json" -> "json"
      [] w = "save_to_excel" -> "excel"
      [] w = "save_to_csv" -> "csv"
      [] w = "save_to_pdf" -> "pdf"

\* the formats save is documented to support
Supported == {"json", "excel", "csv", "pdf"}

\* C14: when save is called, with records to write, on a list of formats that
\* holds an unsupported format, the unsupported formats are reported and only
\* they are skipped: the formats written are exactly the supported formats
\* that were requested, and no format that was not requested is written.
C14_UnsupportedSkipped ==
    (/\ op = "save"
     /\ Chosen(questions, arg_filter) # <<>>
     /\ \E n \in 1..Len(arg_formats) : arg_formats[n] \notin Supported) =>
        /\ invalid_formats = SelectSeq(arg_formats, LAMBDA fmt : fmt \notin Supported)
        /\ {FormatOf(written[i].writer) : i \in 1..Len(written)}
               = {arg_formats[n] : n \in 1..Len(arg_formats)} \cap Supported

\* C15: when the questions list is not empty and save or save_all is called
\* with a supported format ('json', 'excel', 'csv' or 'pdf') among the formats,
\* the writer of that format is invoked, and the path of its output is in the
\* list save returns; requesting 'pdf' invokes save_to_pdf.
C15_SupportedHonoured ==
    (op \in {"save", "save_all"} /\ questions # <<>>) =>
        \A n \in 1..Len(arg_formats) :
            arg_formats[n] \in Supported =>
                /\ \E i \in 1..Len(invoked) :
                      FormatOf(invoked[i].writer) = arg_formats[n]
                /\ op = "save" =>
                      \E j \in 1..Len(result.value) :
                          /\ result.value[j].stem = arg_file.stem
                          /\ result.value[j].ext
                                 = <<CASE arg_formats[n] = "json" -> ".json"
                                       [] arg_formats[n] = "excel" -> ".xlsx"
                                       [] arg_formats[n] = "csv" -> ".csv"
                                       [] arg_formats[n] = "pdf" -> ".pdf">>

\* C16: get_questions_by_type, for the filter text or image, returns exactly
\* the records of the questions list of that type, in their order; every
\* writer (JSON, Excel, CSV, PDF) writes exactly the records of the type of
\* its filter, in their order, and every record when it has no filter.  A
\* writer with nothing to write, and save_to_pdf without reportlab, write no
\* file.
C16_UniformFilter ==
    /\ (op = "get_questions_by_type" /\ arg_filter \in {"text", "image"}) =>
           result.value = Chosen(questions, arg_filter)
    /\ \A i \in 1..Len(written) :
           written[i].content =
               ContentOf(written[i].writer,
                         Chosen(questions, written[i].question_type),
                         written[i].question_type)
    /\ op \in Writers =>
           written =
               IF \/ op = "save_to_pdf" /\ ~reportlab_available
                  \/ Chosen(questions, arg_filter) = <<>>
               THEN <<>>
               ELSE << [output_file |-> arg_file,
                        writer |-> op,
                        question_type |-> arg_filter,
                        content |-> ContentOf(op, Chosen(questions, arg_filter),
                                              arg_filter)] >>
    /\ op = "save" =>
           \A i \in 1..Len(written) : written[i].question_type = arg_filter
    /\ (op = "save_all" /\ arg_filter = "None") =>
           \A i \in 1..Len(written) : written[i].question_type = "None"

\* save_to_pdf, with the filter text, wrote one of the two records of a list
\* that holds a text question and an image question
C16_Witness ==
    /\ op = "save_to_pdf"
    /\ arg_filter = "text"
    /\ Len(questions) = 2
    /\ questions[1].question_type = "text"
    /\ questions[2].question_type = "image"
    /\ Len(written) = 1
    /\ Len(written[1].content.blocks) = 1
    /\ written[1].content.blocks[1].q_header[1] = questions[1].question_no

-----------------------------------------------------------------------------
(* the counts of get_summary and of the metadata of the JSON file *)

\* C23: every record of the questions list has question_type 'text' or
\* 'image'; the dictionary get_summary returns has total = text_based +
\* image_based = the length of the questions list; the metadata of every file
\* save_to_json wrote has total_questions = text_based + image_based = the
\* number of entries of the questions array of that file.
C23_CountsAddUp ==
    /\ \A n \in 1..Len(questions) : questions[n].question_type \in {"text", "image"}
    /\ op = "get_summary" =>
           /\ result.value.total = Len(questions)
           /\ result.value.total = result.value.text_based + result.value.image_based
    /\ \A i \in 1..Len(written) :
           written[i].writer = "save_to_json" =>
               LET metadata == written[i].content.metadata
               IN  /\ metadata.total_questions = metadata.text_based + metadata.image_based
                   /\ metadata.total_questions = Len(written[i].content.questions)

\* get_summary counted two text questions and two image questions after two
\* calls of parse_questions, each of which added one of either type
C23_Witness ==
    /\ op = "get_summary"
    /\ calls = 2
    /\ result.value = [total |-> 4, text_based |-> 2, image_based |-> 2]

-----------------------------------------------------------------------------
(* the list save returns *)

\* C25: every path in the list save returned is the path of a file that a
\* writer wrote during that call, and save called with an empty questions
\* list wrote no file.
C25_ReturnedWereWritten ==
    op = "save" =>
        /\ result.kind = "list" =>
               \A j \in 1..Len(result.value) :
                   \E i \in 1..Len(written) :
                       written[i].output_file = result.value[j]
        /\ questions = <<>> => written = <<>>

-----------------------------------------------------------------------------
(* examples/batch_processing.py: batch_process_pdfs *)

\* the number of files of the longest list pdf_files
MaxFiles == 3

\* the files a list may name, with what the file system holds for each: a
\* file with one text question, a file with a text question and an image
\* question, a path with no file, a file PyPDF2 cannot read, and a file whose
\* only block fails to parse
BatchFiles == {
    [name |-> [stem |-> <<"chapter1">>, ext |-> <<".pdf">>], exists |-> TRUE,
     source |-> "readable", doc |-> [prelude |-> FALSE, blocks |-> <<6>>]],
    [name |-> [stem |-> <<"chapter2">>, ext |-> <<".pdf">>], exists |-> TRUE,
     source |-> "readable", doc |-> [prelude |-> TRUE, blocks |-> <<3, 4>>]],
    [name |-> [stem |-> <<"chapter3">>, ext |-> <<".pdf">>], exists |-> FALSE,
     source |-> "missing", doc |-> [prelude |-> FALSE, blocks |-> <<>>]],
    [name |-> [stem |-> <<"chapter4">>, ext |-> <<".pdf">>], exists |-> TRUE,
     source |-> "unreadable", doc |-> [prelude |-> FALSE, blocks |-> <<>>]],
    [name |-> [stem |-> <<"chapter5">>, ext |-> <<".pdf">>], exists |-> TRUE,
     source |-> "readable", doc |-> [prelude |-> FALSE, blocks |-> <<1>>]]}

\* the lists pdf_files of at most MaxFiles files; a file may be named twice
BatchLists == UNION {[1..n -> BatchFiles] : n \in 0..MaxFiles}

\* output_dir, by default
output_dir == "batch_output"

\* os.path.join(output_dir, os.path.splitext(os.path.basename(pdf_file))[0])
output_path(pdf_file) ==
    [stem |-> <<output_dir, "/">> \o base_name(pdf_file.name), ext |-> <<>>]

\* results['failed'].append({'file': pdf_file, 'error': error})
record_failed(res, pdf_file, error) ==
    [res EXCEPT !.failed = Append(@, [file |-> pdf_file.name, error |-> error])]

\* A slip the total would catch: the entry appended and the total left as it
\* was.
record_success_uncounted(res, pdf_file, summary) ==
    [res EXCEPT !.successful = Append(@, [file |-> pdf_file.name,
                                          questions |-> summary.total,
                                          text |-> summary.text_based,
                                          image |-> summary.image_based])]

\* results['successful'].append({...}) and
\* results['total_questions'] += summary['total']
record_success(res, pdf_file, summary) ==
    [res EXCEPT !.successful = Append(@, [file |-> pdf_file.name,
                                          questions |-> summary.total,
                                          text |-> summary.text_based,
                                          image |-> summary.image_based]),
                !.total_questions = @ + summary.total]

InitBatch ==
    /\ ParseIdle
    /\ SanIdle
    /\ DetIdle
    /\ BlkIdle
    /\ source = "none"
    /\ ocr_available = FALSE
    /\ use_ocr \in BOOLEAN
    /\ returned = <<>>
    /\ SaveIdle
    /\ pdf_files \in BatchLists
    /\ handled = 0
    /\ results = [successful |-> <<>>, failed |-> <<>>, total_questions |-> 0]

\* extractor = PDFQuestionExtractor(pdf_file) and extractor.process(...): the
\* new instance starts with no question, and process leaves it with the
\* records qs of the pairs parsed from text; the OCR libraries are not
\* installed, so that the text is that of the PDF whatever use_ocr is
Extracted(pdf_file, text, pairs, qs) ==
    /\ source' = pdf_file.source
    /\ doc' = pdf_file.doc
    /\ extracted' = text
    /\ considered' = pairs
    /\ questions' = qs
    /\ before' = 0
    /\ calls' = 1
    /\ returned' = qs

\* the turn for a file that exists, once process returned qs: save_all and
\* the entry of successful when qs has a record, the entry of failed when it
\* has none
Recorded(pdf_file, qs) ==
    IF qs # <<>>
    THEN /\ Exported("save_all", output_path(pdf_file), <<"json">>,
                     "separate_by_type",
                     save_all(qs, reportlab_available, output_path(pdf_file),
                              <<"json">>, TRUE))
         /\ results' = record_success(results, pdf_file, get_summary(qs))
    ELSE /\ Exported("none", <<>>, <<>>, "None",
                     [invalid_formats |-> <<>>, invoked |-> <<>>,
                      written |-> <<>>,
                      result |-> [kind |-> "None", value |-> <<>>]])
         /\ results' = record_failed(results, pdf_file, "No questions found")

\* for each file that exists, what process makes of it: the text of the PDF,
\* the pairs of the loop of parse_questions and the records appended
Processed ==
    [f \in {g \in BatchFiles : g.exists} |->
        [text |-> extract_text_from_pdf(f.source, f.doc),
         pairs |-> LoopPairs(re_split(extract_text_from_pdf(f.source, f.doc)), 1),
         questions |-> LoopRecords(LoopPairs(
                           re_split(extract_text_from_pdf(f.source, f.doc)), 1))]]

\* the turn for a file that exists
ProcessFile(pdf_file) ==
    /\ Extracted(pdf_file, Processed[pdf_file].text, Processed[pdf_file].pairs,
                 Processed[pdf_file].questions)
    /\ Recorded(pdf_file, Processed[pdf_file].questions)

\* batch_process_pdfs, one turn of `for i, pdf_file in enumerate(pdf_files, 1)`.
\* No exception leaves the methods of the extractor (each catches its own),
\* so that the turn ends in one of the three branches before the except clause.
BatchFile ==
    /\ handled < Len(pdf_files)
    /\ handled' = handled + 1
    /\ IF ~pdf_files[handled + 1].exists
       THEN /\ results' = record_failed(results, pdf_files[handled + 1],
                                        "File not found")
            /\ UNCHANGED <<parse_vars, source, returned, op, arg_file, arg_formats,
                           arg_filter, invalid_formats, invoked, written, result>>
       ELSE ProcessFile(pdf_files[handled + 1])
    /\ UNCHANGED <<pdf_files, ocr_available, use_ocr, reportlab_available,
                   san_vars, det_vars, blk_vars>>

NextBatch == BatchFile

SpecBatch == InitBatch /\ [][NextBatch]_vars

\* the records an extractor of its own gets from the file alone
OwnRecords(pdf_file) == Processed[pdf_file].questions

\* the file exists and holds at least one question that parses
Succeeds(pdf_file) == pdf_file.exists /\ OwnRecords(pdf_file) # <<>>

\* the files handled so far, in order
Handled == SubSeq(pdf_files, 1, handled)

\* the sum of the question counts of the entries of a list
RECURSIVE SumQuestions(_)
SumQuestions(entries) ==
    IF entries = <<>> THEN 0
    ELSE entries[1].questions + SumQuestions(Tail(entries))

\* C24: after any number of turns, the successful entries are, in order, the
\* files handled that exist and give a question, each with the counts of the
\* records of that file alone; the failed entries are, in order, the other
\* files handled; so the two lengths sum to the number of files handled, and
\* to the number of files once the loop is over; total_questions is the sum
\* of the question counts of the successful entries; and whatever the turns
\* before recorded, the next file has its turn.
C24_Isolated ==
    LET good == SelectSeq(Handled, Succeeds)
        bad == SelectSeq(Handled, LAMBDA f : ~Succeeds(f))
    IN  /\ Len(results.successful) = Len(good)
        /\ \A k \in 1..Len(good) :
               /\ results.successful[k].file = good[k].name
               /\ results.successful[k].questions = Len(OwnRecords(good[k]))
               /\ results.successful[k].text = CountType(OwnRecords(good[k]), "text")
               /\ results.successful[k].image = CountType(OwnRecords(good[k]), "image")
        /\ Len(results.failed) = Len(bad)
        /\ \A k \in 1..Len(bad) : results.failed[k].file = bad[k].name
        /\ Len(results.successful) + Len(results.failed) = handled
        /\ results.total_questions = SumQuestions(results.successful)
        /\ handled > 0 /\ Succeeds(pdf_files[handled]) =>
               questions = OwnRecords(pdf_files[handled])
        /\ handled < Len(pdf_files) => ENABLED BatchFile

\* a batch of three files is over: the first path has no file, the second
\* file cannot be read, and the third, which follows the two failures, gave
\* its two questions
C24_Witness ==
    /\ Len(pdf_files) = 3
    /\ handled = 3
    /\ ~pdf_files[1].exists
    /\ pdf_files[2].source = "unreadable"
    /\ pdf_files[3].doc.blocks = <<3, 4>>
    /\ Len(results.failed) = 2
    /\ results.failed[1].error = "File not found"
    /\ results.failed[2].error = "No questions found"
    /\ results.successful = << [file |-> pdf_files[3].name, questions |-> 2,
                                text |-> 1, image |-> 1] >>
    /\ results.total_questions = 2

====
